---- MODULE Spec2Model ----
(***************************************************************************)
(* Rule-set reconciliation (Grant / Revoke of role permissions on groups   *)
(* and service principals), the client-held etag, and the page-token       *)
(* arithmetic of the Databricks connector.                                 *)
(*                                                                         *)
(* A principal string "<kind>/<key>" is the pair <<kind, key>>; an etag is *)
(* the empty string <<>> or the pair <<resource, version>> the platform    *)
(* handed out for that resource's rule set.                                *)
(***************************************************************************)
EXTENDS Integers, Sequences, FiniteSets, TLC

(* ------------------------------ bounds --------------------------------- *)
\* grant rules stored on the platform before the connector starts
MaxRules == 2
\* rule-set writes the platform accepts in one run
MaxWrites == 3
\* entries the platform returns to a filtered list request
MaxResults == 2
\* entries of the workspaces list and of the workspace-tokens list
MaxList == 2
\* items the platform holds when a page walk starts
MaxTotal == 120
\* List calls in one page walk
MaxSteps == 6
\* largest page index and item count handed to prepareNextToken on its own
MaxIndex == 12

\* calls of roleBuilder.Grants in one walk
MaxCalls == 8

(* ------------------------ program constants ---------------------------- *)
groupManagerEntitlement == "roles/group.manager"
UsersType == "users"
GroupsType == "groups"
ServicePrincipalsType == "servicePrincipals"

\* resource type ids of the host framework
userResourceType == "user"
groupResourceType == "group"
servicePrincipalResourceType == "service_principal"

ResourcesPageSize == 50

(* ----------------------------- universe -------------------------------- *)
\* the resources whose rule sets are edited: an account-level group and an
\* account-level service principal (workspaceId = "" for both)
Resources == {"g1", "sp1"}
ResourceKind(r) == IF r = "g1" THEN GroupsType ELSE ServicePrincipalsType
WorkspaceOf(r) == ""

Roles == {groupManagerEntitlement, "roles/servicePrincipal.user"}

\* principals known to the platform: opaque id -> (resource type, natural key)
PrincipalIds == {"u1", "u2", "g9"}
PrincipalType(id) == IF id = "g9" THEN groupResourceType ELSE userResourceType
NaturalKey(id) == CASE id = "u1" -> "alice" [] id = "u2" -> "bob" [] OTHER -> "devs"

\* slots for handler invocations: two can be in flight at once
Ops == {1, 2}

(* --------------------------- slice helpers ----------------------------- *)
\* slices.Contains
Contains(s, x) == \E i \in 1..Len(s) : s[i] = x

\* slices.Index (1-based here, 0 when absent)
Index(s, x) == IF Contains(s, x) THEN CHOOSE i \in 1..Len(s) : s[i] = x /\ \A j \in 1..(i-1) : s[j] # x ELSE 0

\* slices.Delete(s, i, i+1)
DeleteAt(s, i) == [j \in 1..(Len(s) - 1) |-> IF j < i THEN s[j] ELSE s[j + 1]]

(* ------------------------- principal strings --------------------------- *)
\* preparePrincipalID: "<Kind>/<natural key>" built from the lookup by opaque id
preparePrincipalID(principalType, principalID) ==
  CASE principalType = userResourceType -> <<UsersType, NaturalKey(principalID)>>
    [] principalType = groupResourceType -> <<GroupsType, NaturalKey(principalID)>>
    [] principalType = servicePrincipalResourceType ->
         <<ServicePrincipalsType, NaturalKey(principalID)>>

PrincipalStrings == {preparePrincipalID(PrincipalType(id), id) : id \in PrincipalIds}

(* ----------------------------- page tokens ----------------------------- *)
\* a token is a string of decimal digits, "" is <<>>
Digits == <<"0", "1", "2", "3", "4", "5", "6", "7", "8", "9">>

\* strconv.Itoa of a number >= 0
RECURSIVE Itoa(_)
Itoa(n) == IF n < 10 THEN <<Digits[n + 1]>> ELSE Itoa(n \div 10) \o <<Digits[(n % 10) + 1]>>

\* strconv.ParseUint(token, 10, 32) of a string of digits
RECURSIVE ParseUint(_)
ParseUint(token) ==
  IF Len(token) = 0 THEN 0
  ELSE ParseUint(SubSeq(token, 1, Len(token) - 1)) * 10
       + (CHOOSE d \in 0..9 : Digits[d + 1] = token[Len(token)])

\* convertPageToken: the empty token is page 1
convertPageToken(token) == IF token = <<>> THEN 1 ELSE ParseUint(token)

\* a next token that steps one index too far
prepareNextTokenSkipping(page, pageTotal, total) ==
  LET next == page + pageTotal + 1
  IN  IF next < total + 1 THEN Itoa(next) ELSE <<>>

\* a next token that ends the walk one index early
prepareNextTokenEarly(page, pageTotal, total) ==
  LET next == page + pageTotal
  IN  IF next < total THEN Itoa(next) ELSE <<>>

\* prepareNextToken
prepareNextToken(page, pageTotal, total) ==
  LET next == page + pageTotal
  IN  IF next < total + 1 THEN Itoa(next) ELSE <<>>

\* NewPaginationVars(page, count) asks the platform for count items from
\* index page on; the platform answers with those it has
PageLength(total, page, count) ==
  IF page > total THEN 0
  ELSE IF total - page + 1 < count THEN total - page + 1 ELSE count

(* ------------------------------ transport ------------------------------ *)
\* One HTTP exchange of the client.  A text is a sequence of pieces, "" is
\* <<>>, and one text contains another when that is one of its pieces.
Methods == {"GET", "PUT", "POST", "DELETE"}

PermissionsUnavailable == "Permission assignment APIs are not available for this workspace"

\* the same sentence as the platform could also spell it
PermissionsUnavailableLower == "permission assignment APIs are not available for this workspace"

Messages ==
  {<<>>, <<"y">>, <<"Bad request: ", PermissionsUnavailable>>, <<PermissionsUnavailableLower>>}

\* strings.Contains
StringsContains(text, piece) == \E i \in 1..Len(text) : text[i] = piece

\* what the platform answers: nothing (the exchange failed), or a status, a
\* content type, rate-limit headers and a body that is a JSON object with
\* detail and message or is not JSON at all
Statuses == {200, 201, 400, 404, 429, 500}
Bodies ==
  {[json |-> FALSE, detail |-> "", message |-> <<>>]}
    \cup {[json |-> TRUE, detail |-> d, message |-> m] : d \in {"", "x"}, m \in Messages}
NoAnswer ==
  [received |-> FALSE, status |-> 0, ctype |-> "", rate |-> "absent",
   body |-> [json |-> FALSE, detail |-> "", message |-> <<>>]]
Answers ==
  {NoAnswer} \cup
  {[received |-> TRUE, status |-> st, ctype |-> ct, rate |-> rl, body |-> b] :
     st \in Statuses, ct \in {"application/json", "text/plain"},
     rl \in {"absent", "remaining=0"}, b \in Bodies}

\* uhttp.WithRatelimitData: the description filled from the response headers;
\* without headers it stays the empty description
RateLimitOf(answer) == <<"description", answer.rate>>
NilRateLimit == <<"nil">>

\* httpClient.Do returns an error when there is no response or its status is
\* not 2xx
DoFails(answer) == ~answer.received \/ answer.status < 200 \/ answer.status > 299

NoError == [kind |-> "none", status |-> 0, detail |-> "", message |-> <<>>]
PlainError(kind) == [kind |-> kind, status |-> 0, detail |-> "", message |-> <<>>]
APIError(status, detail, message) ==
  [kind |-> "api", status |-> status, detail |-> detail, message |-> message]

\* Client.doRequest (Get, Put, Post): [sent, rate, err]
doRequest(prepared, answer) ==
  IF ~prepared THEN [sent |-> FALSE, rate |-> NilRateLimit, err |-> PlainError("request")]
  ELSE IF ~answer.received
  THEN [sent |-> TRUE, rate |-> RateLimitOf(NoAnswer), err |-> PlainError("transport")]
  ELSE IF ~DoFails(answer) THEN [sent |-> TRUE, rate |-> RateLimitOf(answer), err |-> NoError]
  ELSE IF ~answer.body.json
  THEN [sent |-> TRUE, rate |-> NilRateLimit, err |-> PlainError("decode")]
  ELSE [sent |-> TRUE, rate |-> RateLimitOf(answer),
        err |-> APIError(answer.status, answer.body.detail, answer.body.message)]

\* Client.doRequestNoResponse (Delete): the body is not read
doRequestNoResponse(prepared, answer) ==
  IF ~prepared THEN [sent |-> FALSE, rate |-> NilRateLimit, err |-> PlainError("request")]
  ELSE IF ~answer.received
  THEN [sent |-> TRUE, rate |-> RateLimitOf(NoAnswer), err |-> PlainError("transport")]
  ELSE IF ~DoFails(answer) THEN [sent |-> TRUE, rate |-> RateLimitOf(answer), err |-> NoError]
  ELSE [sent |-> TRUE, rate |-> RateLimitOf(answer), err |-> APIError(answer.status, "", <<>>)]

(* ----------------------- rule-set reconciliation ----------------------- *)
RuleSet(role, principals) == [role |-> role, principals |-> principals]

\* The loop of Grant over the list just read.  Returns [noop, list]: noop when
\* an entry of the role already holds the principal (the handler returns nil
\* before any write), else the list to submit.
RECURSIVE GrantLoop(_, _, _, _, _)
GrantLoop(ruleSets, i, found, role, principalID) ==
  IF i > Len(ruleSets)
  THEN [noop |-> FALSE,
        list |-> IF found THEN ruleSets
                 ELSE Append(ruleSets, RuleSet(role, <<principalID>>))]
  ELSE IF ruleSets[i].role = role
       THEN IF Contains(ruleSets[i].principals, principalID)
            THEN [noop |-> TRUE, list |-> ruleSets]
            ELSE GrantLoop([ruleSets EXCEPT ![i].principals = Append(@, principalID)],
                           i + 1, TRUE, role, principalID)
       ELSE GrantLoop(ruleSets, i + 1, found, role, principalID)

\* a Grant that puts the principal in front of the role's principals
GrantAtFront(ruleSets, role, principalID) ==
  IF \E i \in 1..Len(ruleSets) :
       ruleSets[i].role = role /\ Contains(ruleSets[i].principals, principalID)
  THEN [noop |-> TRUE, list |-> ruleSets]
  ELSE IF \E i \in 1..Len(ruleSets) : ruleSets[i].role = role
       THEN [noop |-> FALSE,
             list |-> [i \in 1..Len(ruleSets) |->
                         IF ruleSets[i].role = role
                         THEN RuleSet(role, <<principalID>> \o ruleSets[i].principals)
                         ELSE ruleSets[i]]]
       ELSE [noop |-> FALSE, list |-> <<RuleSet(role, <<principalID>>)>> \o ruleSets]

\* a Grant that submits the entries of its own role only
GrantRoleOnly(ruleSets, role, principalID) ==
  LET out == GrantLoop(ruleSets, 1, FALSE, role, principalID)
  IN  [noop |-> out.noop, list |-> SelectSeq(out.list, LAMBDA e : e.role = role)]

GrantRuleSets(ruleSets, role, principalID) == GrantLoop(ruleSets, 1, FALSE, role, principalID)

\* The loop of Revoke over the list just read.  The first entry of the role
\* decides: it holds the principal (entry shortened or dropped, then break) or
\* it does not (the handler returns nil).  With no entry of the role the loop
\* falls through and the list is submitted as read.
RECURSIVE RevokeLoop(_, _, _, _)
RevokeLoop(ruleSets, i, role, principalID) ==
  IF i > Len(ruleSets)
  THEN [noop |-> FALSE, list |-> ruleSets]
  ELSE IF ruleSets[i].role # role
       THEN RevokeLoop(ruleSets, i + 1, role, principalID)
       ELSE IF Contains(ruleSets[i].principals, principalID)
            THEN IF Len(ruleSets[i].principals) = 1
                 THEN [noop |-> FALSE, list |-> DeleteAt(ruleSets, i)]
                 ELSE [noop |-> FALSE,
                       list |-> [ruleSets EXCEPT ![i].principals =
                                   DeleteAt(@, Index(@, principalID))]]
            ELSE [noop |-> TRUE, list |-> ruleSets]

\* a Revoke that shortens the principals and never drops the entry
RevokeKeepsEntry(ruleSets, role, principalID) ==
  LET hits == {i \in 1..Len(ruleSets) : ruleSets[i].role = role}
  IN  IF Len(ruleSets) = 0 THEN [noop |-> TRUE, list |-> ruleSets]
      ELSE IF hits = {} THEN [noop |-> FALSE, list |-> ruleSets]
      ELSE LET i == CHOOSE h \in hits : \A g \in hits : h <= g
           IN  IF Contains(ruleSets[i].principals, principalID)
               THEN [noop |-> FALSE,
                     list |-> [ruleSets EXCEPT ![i].principals =
                                 DeleteAt(@, Index(@, principalID))]]
               ELSE [noop |-> TRUE, list |-> ruleSets]

RevokeRuleSets(ruleSets, role, principalID) ==
  IF Len(ruleSets) = 0
  THEN [noop |-> TRUE, list |-> ruleSets]
  ELSE RevokeLoop(ruleSets, 1, role, principalID)

\* Role a handler works on: [err, role].  Groups accept only the manager
\* entitlement at account level and the entitlement's slug inside a
\* workspace; service principals use the slug.
ResolveRole(r, slug) ==
  IF ResourceKind(r) = GroupsType
  THEN IF WorkspaceOf(r) = "" /\ slug # groupManagerEntitlement
       THEN [err |-> TRUE, role |-> ""]
       ELSE IF WorkspaceOf(r) # ""
            THEN [err |-> slug = "", role |-> slug]
            ELSE [err |-> FALSE, role |-> groupManagerEntitlement]
  ELSE [err |-> FALSE, role |-> slug]

(* ------------------------------- state --------------------------------- *)
VARIABLES
  rules,      \* platform: resource -> stored grant_rules list
  ver,        \* platform: resource -> version of its rule set (the etag's number)
  writes,     \* rule-set writes the platform has accepted so far
  etag,       \* Client.etag
  op,         \* handler invocation slot -> its position and locals
  lastList,   \* history: etag returned by the latest successful ListRuleSets
  pending,    \* history: etags returned by ListRuleSets since the last UpdateRuleSets
  lastPut,    \* history: the latest UpdateRuleSets request
  prev,       \* history: the handler that returned last
  focus,      \* the request the host framework repeats (sequential runs)
  walk,       \* a page walk of List: total, token held by the host, steps, visits
  probe,      \* one call of prepareNextToken: its arguments and its result
  call,       \* one transport call: the platform's answer and what the call returns
  grants,     \* workspaceBuilder.Grants: what it returns for the call's outcome
  lookup,     \* one natural-key lookup: the list answer and what Find... returns
  userOp,     \* one CreateUser / DeleteUser: its scope and what it returns
  config,     \* one configuration and the verdict of its validation
  listing,    \* one workspaceBuilder.List: its inputs and the workspaces it emits
  cycle,      \* one run of the grant and revoke script against one entitlement
  scope,      \* the client's scope (cfg, baseUrl, auth) and the adapters selecting it
  roleWalk    \* a walk of roleBuilder.Grants: the token held by the host, the calls made

history == <<lastList, pending, lastPut, prev>>
paging == <<walk, probe>>
units == <<call, grants, lookup, userOp, config, listing, cycle, scope, roleWalk>>
vars == <<rules, ver, writes, etag, op, lastList, pending, lastPut, prev, focus, walk, probe,
          call, grants, lookup, userOp, config, listing, cycle, scope, roleWalk>>

\* the etag the platform currently attaches to resource r's rule set
PlatformEtag(r) == <<r, ver[r]>>

\* A slot's record: the handler's arguments (kind, res, slug, pid), its
\* position pc, its locals (ruleSets as read, respEtag of the response, submit
\* as handed to UpdateRuleSets) and what it has done so far (result, nList,
\* nPut, accepted, changed, raced, listFailed).
IdleOp ==
  [pc |-> "idle", kind |-> "none", res |-> "none", slug |-> "", pid |-> "none",
   ruleSets |-> <<>>, respEtag |-> <<>>, submit |-> <<>>, result |-> "none",
   nList |-> 0, nPut |-> 0, accepted |-> FALSE,
   changed |-> FALSE, raced |-> FALSE, listFailed |-> FALSE]

NoPut == [sent |-> FALSE, payloadEtag |-> <<>>, queryEtag |-> <<>>, listed |-> <<>>,
          pendingThen |-> {}, res |-> "none", unmodified |-> FALSE, accepted |-> FALSE]

NoPrev == [kind |-> "none", result |-> "none"]

NoFocus == [res |-> "none", slug |-> "", pid |-> "none"]

NoWalk == [total |-> 0, token |-> <<>>, steps |-> 0, seen |-> <<>>, finished |-> FALSE]

NoProbe == [called |-> FALSE, page |-> 1, pageTotal |-> 0, total |-> 0, token |-> <<>>]

NoCall == [pc |-> "none"]

NoGrants == [pc |-> "none"]

NoLookup == [pc |-> "none"]

NoUserOp == [pc |-> "none"]

NoConfig == [pc |-> "none"]

NoListing == [pc |-> "none"]

NoCycle == [pc |-> "none"]

NoScope == [pc |-> "none"]

NoRoleWalk == [pc |-> "none"]

\* every part of the state outside the named ones is at rest
Only(parts) ==
  /\ ("call" \notin parts => call = NoCall)
  /\ ("grants" \notin parts => grants = NoGrants)
  /\ ("lookup" \notin parts => lookup = NoLookup)
  /\ ("userOp" \notin parts => userOp = NoUserOp)
  /\ ("config" \notin parts => config = NoConfig)
  /\ ("listing" \notin parts => listing = NoListing)
  /\ ("cycle" \notin parts => cycle = NoCycle)
  /\ ("scope" \notin parts => scope = NoScope)
  /\ ("roleWalk" \notin parts => roleWalk = NoRoleWalk)

\* a step of the named parts leaves the other parts alone
Keep(parts) ==
  /\ ("call" \notin parts => UNCHANGED call)
  /\ ("grants" \notin parts => UNCHANGED grants)
  /\ ("lookup" \notin parts => UNCHANGED lookup)
  /\ ("userOp" \notin parts => UNCHANGED userOp)
  /\ ("config" \notin parts => UNCHANGED config)
  /\ ("listing" \notin parts => UNCHANGED listing)
  /\ ("cycle" \notin parts => UNCHANGED cycle)
  /\ ("scope" \notin parts => UNCHANGED scope)
  /\ ("roleWalk" \notin parts => UNCHANGED roleWalk)

(* ------------------------- initial rule sets --------------------------- *)
\* one grant rule as the platform stores it: a role and one principal
InitEntries == {RuleSet(role, <<p>>) : role \in Roles, p \in PrincipalStrings}

\* occurrences of principal p among the principals recorded for role
Occurrences(ruleSets, role, p) ==
  Cardinality(UNION {{<<i, j>> : j \in {k \in 1..Len(ruleSets[i].principals) :
                                          ruleSets[i].principals[k] = p}} :
                     i \in {n \in 1..Len(ruleSets) : ruleSets[n].role = role}})

\* no principal appears more than once among the principals of one role
NoDuplicates(ruleSets) ==
  \A role \in Roles : \A p \in PrincipalStrings : Occurrences(ruleSets, role, p) <= 1

\* the lists of at most MaxRules grant rules a resource can start with
InitLists ==
  {l \in UNION {[1..n -> InitEntries] : n \in 0..MaxRules} : NoDuplicates(l)}

InitRest ==
  /\ ver = [r \in Resources |-> 0]
  /\ writes = 0
  /\ etag = <<>>
  /\ op = [o \in Ops |-> IdleOp]
  /\ lastList = <<>>
  /\ pending = {}
  /\ lastPut = NoPut
  /\ prev = NoPrev

(* ------------------------------ handlers ------------------------------- *)
\* Grant and Revoke of a role permission on a group (groupBuilder) or on a
\* service principal (servicePrincipalBuilder).  One handler invocation is
\* the steps  Begin (the GET of ListRuleSets)  ->  AfterList (UpdateEtag and
\* the handler's own work on the list)  ->  UpdateRuleSets (the PUT).

Kinds == {"Grant", "Revoke"}

\* groupBuilder.Revoke resolves the role before it lists; every other handler
\* lists first
RejectedBeforeList(kind, r, slug) ==
  kind = "Revoke" /\ ResourceKind(r) = GroupsType /\ ResolveRole(r, slug).err

\* a return that swallows the error of the failed call
ReturnErrorSwallowed(rec) == [rec EXCEPT !.pc = "done", !.result = "ok"]

\* the handler's return after a failed call: the error goes to the caller
ReturnError(rec) == [rec EXCEPT !.pc = "done", !.result = "error"]

\* the handler's return nil, nil
ReturnNil(rec) == [rec EXCEPT !.pc = "done", !.result = "ok"]

\* a client that keeps the first etag it received
UpdateEtagKeepsFirst(held, received) == IF held = <<>> THEN received ELSE held

\* a client that forgets its etag when a response arrives
UpdateEtagCleared(held, received) == <<>>

\* Client.UpdateEtag
UpdateEtag(held, received) == received

\* an UpdateRuleSets that sends the etag its own handler read
RequestEtagOfOwnRead(held, rec) == rec.respEtag

\* the etag UpdateRuleSets puts into the payload and the query string
RequestEtag(held, rec) == held

\* the principal is in no entry of the role in the list
Absent(ruleSets, role, principalID) ==
  \A i \in 1..Len(ruleSets) :
    ruleSets[i].role = role => ~Contains(ruleSets[i].principals, principalID)

\* The handler is invoked and reaches the platform with the GET of
\* ListRuleSets, which answers with the stored list and its etag.
Begin(o, kind, r, slug, p) ==
  /\ op[o].pc = "idle"
  /\ LET rec == [IdleOp EXCEPT !.kind = kind, !.res = r, !.slug = slug, !.pid = p]
     IN  op' = [op EXCEPT ![o] =
                  IF RejectedBeforeList(kind, r, slug)
                  THEN ReturnError(rec)
                  ELSE [rec EXCEPT !.pc = "got", !.nList = 1,
                                   !.ruleSets = rules[r], !.respEtag = PlatformEtag(r)]]
  /\ UNCHANGED <<rules, ver, writes, etag>>

\* The GET of ListRuleSets fails: ListRuleSets returns the error before
\* UpdateEtag and the handler returns it.
BeginFail(o, kind, r, slug, p) ==
  /\ op[o].pc = "idle"
  /\ ~RejectedBeforeList(kind, r, slug)
  /\ op' = [op EXCEPT ![o] =
              ReturnError([IdleOp EXCEPT !.kind = kind, !.res = r, !.slug = slug,
                                         !.pid = p, !.nList = 1, !.listFailed = TRUE])]
  /\ UNCHANGED <<rules, ver, writes, etag>>

\* what the handler does with the list it read: return (nil or an error) or
\* go on to UpdateRuleSets with the list to submit
Reconcile(rec) ==
  LET principalID == preparePrincipalID(PrincipalType(rec.pid), rec.pid)
      rr == ResolveRole(rec.res, rec.slug)
      out == IF rec.kind = "Grant"
             THEN GrantRuleSets(rec.ruleSets, rr.role, principalID)
             ELSE RevokeRuleSets(rec.ruleSets, rr.role, principalID)
  IN  IF rec.kind = "Grant" /\ rr.err THEN ReturnError(rec)
      ELSE IF out.noop THEN ReturnNil(rec)
      ELSE [rec EXCEPT !.pc = "put", !.submit = out.list]

\* ListRuleSets returns: the client records the etag of the response, then
\* the handler works on the list.
AfterList(o) ==
  /\ op[o].pc = "got"
  /\ etag' = UpdateEtag(etag, op[o].respEtag)
  /\ op' = [op EXCEPT ![o] = Reconcile(op[o])]
  /\ UNCHANGED <<rules, ver, writes>>

\* a Grant in slot q that has read resource r and not yet written
ReadNotWritten(q, r) ==
  op[q].kind = "Grant" /\ op[q].res = r /\ op[q].pc \in {"got", "put"}

\* UpdateRuleSets: the PUT carries the held etag, the platform finds it
\* current, stores the submitted list and moves to a new etag.
UpdateAccepted(o) ==
  /\ op[o].pc = "put"
  /\ RequestEtag(etag, op[o]) = PlatformEtag(op[o].res)
  /\ writes < MaxWrites
  /\ rules' = [rules EXCEPT ![op[o].res] = op[o].submit]
  /\ ver' = [ver EXCEPT ![op[o].res] = @ + 1]
  /\ writes' = writes + 1
  /\ op' = [q \in Ops |->
              IF q = o
              THEN [ReturnNil(op[o]) EXCEPT !.nPut = @ + 1, !.accepted = TRUE,
                                            !.changed = (op[o].submit # rules[op[o].res])]
              ELSE IF op[o].kind = "Grant" /\ ReadNotWritten(q, op[o].res)
                   THEN [op[q] EXCEPT !.raced = TRUE]
                   ELSE op[q]]
  /\ UNCHANGED etag

\* UpdateRuleSets: the PUT carries an etag that is not the current one of the
\* resource; the platform rejects it and the handler returns the error.
UpdateRejected(o) ==
  /\ op[o].pc = "put"
  /\ RequestEtag(etag, op[o]) # PlatformEtag(op[o].res)
  /\ op' = [op EXCEPT ![o] = [ReturnError(op[o]) EXCEPT !.nPut = @ + 1]]
  /\ UNCHANGED <<rules, ver, writes, etag>>

\* the handler has returned; its slot takes the next invocation
Return(o) ==
  /\ op[o].pc = "done"
  /\ op' = [op EXCEPT ![o] = IdleOp]
  /\ UNCHANGED <<rules, ver, writes, etag>>

(* ------------------------------ history -------------------------------- *)
\* what an observer of the client writes down at each step

\* a successful ListRuleSets returned respEtag
ObserveList(o) ==
  /\ lastList' = op[o].respEtag
  /\ pending' = pending \cup {op[o].respEtag}
  /\ UNCHANGED <<lastPut, prev>>

\* UpdateRuleSets sent its request
ObservePut(o) ==
  /\ lastPut' = [sent |-> TRUE, payloadEtag |-> RequestEtag(etag, op[o]),
                 queryEtag |-> RequestEtag(etag, op[o]), listed |-> lastList,
                 pendingThen |-> pending, res |-> op[o].res,
                 unmodified |-> (op[o].respEtag = PlatformEtag(op[o].res)),
                 accepted |-> op'[o].accepted]
  /\ pending' = {}
  /\ UNCHANGED <<lastList, prev>>

\* a handler returned to its caller
ObserveReturn(o) ==
  /\ prev' = [kind |-> op[o].kind, result |-> op[o].result]
  /\ UNCHANGED <<lastList, pending, lastPut>>

(* ---------------- concurrent handlers on one client -------------------- *)
\* Invocations that overlap on the one client: Grant and Revoke of the
\* manager role for one user, on either resource.  The group starts with no
\* grant rule or with one rule of another role; the service principal with none.
RaceId == "u1"

OtherRoleRule == RuleSet("roles/servicePrincipal.user", <<<<UsersType, "alice">>>>)

Init ==
  /\ \E l \in {<<>>, <<OtherRoleRule>>} :
       rules = [r \in Resources |-> IF r = "g1" THEN l ELSE <<>>]
  /\ InitRest
  /\ focus = NoFocus
  /\ walk = NoWalk
  /\ probe = NoProbe
  /\ Only({})

ConcurrentBegin ==
  \E o \in Ops, kind \in Kinds, r \in Resources :
    Begin(o, kind, r, groupManagerEntitlement, RaceId) /\ UNCHANGED <<history, focus, paging, units>>

\* a ListRuleSets that fails: what follows does not depend on the handler it
\* fails in, so one is enough (a Grant on the group)
ConcurrentBeginFail ==
  \E o \in Ops :
    BeginFail(o, "Grant", "g1", groupManagerEntitlement, RaceId)
      /\ UNCHANGED <<history, focus, paging, units>>

ConcurrentAfterList == \E o \in Ops : AfterList(o) /\ ObserveList(o) /\ UNCHANGED <<focus, paging, units>>

ConcurrentUpdateAccepted ==
  \E o \in Ops : UpdateAccepted(o) /\ ObservePut(o) /\ UNCHANGED <<focus, paging, units>>

ConcurrentUpdateRejected ==
  \E o \in Ops : UpdateRejected(o) /\ ObservePut(o) /\ UNCHANGED <<focus, paging, units>>

ConcurrentReturn == \E o \in Ops : Return(o) /\ UNCHANGED <<history, focus, paging, units>>

Next ==
  \/ ConcurrentBegin
  \/ ConcurrentBeginFail
  \/ ConcurrentAfterList
  \/ ConcurrentUpdateAccepted
  \/ ConcurrentUpdateRejected
  \/ ConcurrentReturn

Spec == Init /\ [][Next]_vars

(* ------------- handlers invoked strictly one after another ------------- *)
\* One invocation at a time (slot 1).  The host framework repeats Grant and
\* Revoke of one (resource, role, principal), the focus, in any order; the
\* resource starts with any list of InitLists.
InitSeq ==
  /\ focus \in [res : Resources, slug : Roles, pid : PrincipalIds]
  /\ \E l \in InitLists : rules = [r \in Resources |-> IF r = focus.res THEN l ELSE <<>>]
  /\ InitRest
  /\ walk = NoWalk
  /\ probe = NoProbe
  /\ Only({})

SeqBegin ==
  \E kind \in Kinds :
    Begin(1, kind, focus.res, focus.slug, focus.pid) /\ UNCHANGED <<history, focus, paging, units>>

SeqBeginFail ==
  \E kind \in Kinds :
    BeginFail(1, kind, focus.res, focus.slug, focus.pid) /\ UNCHANGED <<history, focus, paging, units>>

SeqAfterList == AfterList(1) /\ UNCHANGED <<history, focus, paging, units>>

SeqUpdateAccepted == UpdateAccepted(1) /\ UNCHANGED <<history, focus, paging, units>>

SeqReturn == Return(1) /\ ObserveReturn(1) /\ UNCHANGED <<focus, paging, units>>

SeqNext ==
  \/ SeqBegin
  \/ SeqBeginFail
  \/ SeqAfterList
  \/ SeqUpdateAccepted
  \/ SeqReturn

SpecSeq == InitSeq /\ [][SeqNext]_vars

(* ------ handlers one after another, over any resource, one client ------ *)
\* One invocation at a time (slot 1); each one is a Grant or a Revoke of the
\* manager role for RaceId on either resource.  Nobody else writes.
TurnBegin ==
  \E kind \in Kinds, r \in Resources :
    Begin(1, kind, r, groupManagerEntitlement, RaceId) /\ UNCHANGED <<history, focus, paging, units>>

TurnBeginFail ==
  \E kind \in Kinds, r \in Resources :
    BeginFail(1, kind, r, groupManagerEntitlement, RaceId)
      /\ UNCHANGED <<history, focus, paging, units>>

TurnAfterList == AfterList(1) /\ ObserveList(1) /\ UNCHANGED <<focus, paging, units>>

TurnUpdateAccepted == UpdateAccepted(1) /\ ObservePut(1) /\ UNCHANGED <<focus, paging, units>>

TurnReturn == Return(1) /\ ObserveReturn(1) /\ UNCHANGED <<focus, paging, units>>

TurnNext ==
  \/ TurnBegin
  \/ TurnBeginFail
  \/ TurnAfterList
  \/ TurnUpdateAccepted
  \/ TurnReturn

SpecTurn == Init /\ [][TurnNext]_vars

(* ------------------------------ page walk ------------------------------ *)
\* The host calls List with the token of the previous call, from the empty
\* token until List hands back the empty token.  The platform holds
\* walk.total items, numbered from 1, and does not change during the walk.
Quiet ==
  /\ rules = [r \in Resources |-> <<>>]
  /\ InitRest
  /\ focus = NoFocus

InitWalk ==
  /\ Quiet
  /\ \E total \in 0..MaxTotal :
       walk = [NoWalk EXCEPT !.total = total, !.seen = [i \in 1..total |-> 0]]
  /\ probe = NoProbe
  /\ Only({})

\* one call of List: parse the token, fetch the page, hand back the next token
ListPage ==
  /\ ~walk.finished
  /\ walk.steps < MaxSteps
  /\ LET page == convertPageToken(walk.token)
         n == PageLength(walk.total, page, ResourcesPageSize)
         token == prepareNextToken(page, n, walk.total)
     IN  walk' = [walk EXCEPT !.token = token,
                              !.steps = @ + 1,
                              !.seen = [i \in 1..walk.total |->
                                          IF page <= i /\ i < page + n
                                          THEN walk.seen[i] + 1 ELSE walk.seen[i]],
                              !.finished = (token = <<>>)]
  /\ UNCHANGED <<rules, ver, writes, etag, op, history, focus, probe, units>>

WalkNext == ListPage

SpecWalk == InitWalk /\ [][WalkNext]_vars

(* ------------------------ prepareNextToken alone ----------------------- *)
InitToken ==
  /\ Quiet
  /\ walk = NoWalk
  /\ \E page \in 1..MaxIndex, pageTotal \in 0..MaxIndex, total \in 0..(2 * MaxIndex) :
       probe = [NoProbe EXCEPT !.page = page, !.pageTotal = pageTotal, !.total = total]
  /\ Only({})

PrepareToken ==
  /\ ~probe.called
  /\ probe' = [probe EXCEPT !.called = TRUE,
                            !.token = prepareNextToken(probe.page, probe.pageTotal,
                                                       probe.total)]
  /\ UNCHANGED <<rules, ver, writes, etag, op, history, focus, walk, units>>

TokenNext == PrepareToken

SpecToken == InitToken /\ [][TokenNext]_vars

(* --------------------------- transport calls --------------------------- *)
\* One call of Get, Put, Post or Delete with any answer of the platform, and
\* workspaceBuilder.Grants, whose ListWorkspaceMembers is a Get.
InitCall ==
  /\ Quiet
  /\ walk = NoWalk
  /\ probe = NoProbe
  /\ Only({"call", "grants"})
  /\ \E method \in Methods, prepared \in BOOLEAN, answer \in Answers :
       call = [pc |-> "ready", method |-> method, prepared |-> prepared,
               answer |-> answer, result |-> doRequest(FALSE, NoAnswer)]
  /\ \E available \in BOOLEAN :
       grants = [pc |-> "ready", accountAPI |-> available, list |-> "nil",
                 annos |-> NilRateLimit, err |-> FALSE]

\* Client.Get / Put / Post / Delete
Transport ==
  /\ call.pc = "ready"
  /\ call' = [call EXCEPT !.pc = "done",
                          !.result = IF call.method = "DELETE"
                                     THEN doRequestNoResponse(call.prepared, call.answer)
                                     ELSE doRequest(call.prepared, call.answer)]
  /\ UNCHANGED <<rules, ver, writes, etag, op, history, focus, paging>>
  /\ Keep({"call"})

\* a test that takes every APIError of status 400 for "no data"
IsAnyBadRequest(err) == err.kind = "api" /\ err.status = 400

\* the failure workspaceBuilder.Grants takes for "no data"
IsPermissionsUnavailable(err) ==
  /\ err.kind = "api"
  /\ err.status = 400
  /\ StringsContains(err.message, PermissionsUnavailable)

\* workspaceBuilder.Grants, from the answer to ListWorkspaceMembers on
WorkspaceGrants ==
  /\ grants.pc = "ready"
  /\ call.pc = "done" /\ call.method = "GET"
  /\ grants' =
       IF ~grants.accountAPI THEN [grants EXCEPT !.pc = "done"]
       ELSE IF call.result.err.kind = "none"
       THEN [grants EXCEPT !.pc = "done", !.list = "members"]
       ELSE LET annos == IF call.result.rate # NilRateLimit
                         THEN call.result.rate ELSE NilRateLimit
            IN  IF IsPermissionsUnavailable(call.result.err)
                THEN [grants EXCEPT !.pc = "done", !.list = "empty", !.annos = annos]
                ELSE [grants EXCEPT !.pc = "done", !.annos = annos, !.err = TRUE]
  /\ UNCHANGED <<rules, ver, writes, etag, op, history, focus, paging>>
  /\ Keep({"grants"})

CallNext == Transport \/ WorkspaceGrants

SpecCall == InitCall /\ [][CallNext]_vars

(* ------------------------- natural-key lookups ------------------------- *)
\* FindUserID, FindUsername, FindGroupID, FindGroupDisplayName,
\* FindServicePrincipalID, FindServicePrincipalAppID: a list request with
\* count 1 and a filter, then the key of the first entry.
Lookups ==
  {"FindUserID", "FindUsername", "FindGroupID", "FindGroupDisplayName",
   "FindServicePrincipalID", "FindServicePrincipalAppID"}

\* entries of a list answer: the opaque id and the natural key (userName,
\* displayName, applicationId)
Entries ==
  {[id |-> "42", key |-> "alice@example.com"], [id |-> "43", key |-> "bob@example.com"],
   [id |-> "44", key |-> "carol@example.com"]}

ListAnswers == UNION {[1..n -> Entries] : n \in 0..MaxResults}

\* the field a lookup hands back
KeyOf(which, entry) ==
  IF which \in {"FindUserID", "FindGroupID", "FindServicePrincipalID"}
  THEN entry.id ELSE entry.key

\* a lookup that hands back the last entry's field
FindLast(which, listErr, results) ==
  IF listErr THEN [value |-> "", err |-> TRUE]
  ELSE IF Len(results) = 0 THEN [value |-> "", err |-> FALSE]
  ELSE [value |-> KeyOf(which, results[Len(results)]), err |-> FALSE]

\* Client.Find...: [value, err]
Find(which, listErr, results) ==
  IF listErr THEN [value |-> "", err |-> TRUE]
  ELSE IF Len(results) = 0 THEN [value |-> "", err |-> FALSE]
  ELSE [value |-> KeyOf(which, results[1]), err |-> FALSE]

InitLookup ==
  /\ Quiet
  /\ walk = NoWalk
  /\ probe = NoProbe
  /\ Only({"lookup"})
  /\ \E which \in Lookups, listErr \in BOOLEAN, results \in ListAnswers :
       lookup = [pc |-> "ready", which |-> which, listErr |-> listErr,
                 results |-> IF listErr THEN <<>> ELSE results,
                 value |-> "", err |-> FALSE]

FindByKey ==
  /\ lookup.pc = "ready"
  /\ LET out == Find(lookup.which, lookup.listErr, lookup.results)
     IN  lookup' = [lookup EXCEPT !.pc = "done", !.value = out.value, !.err = out.err]
  /\ UNCHANGED <<rules, ver, writes, etag, op, history, focus, paging>>
  /\ Keep({"lookup"})

LookupNext == FindByKey

SpecLookup == InitLookup /\ [][LookupNext]_vars

(* ------------- a handler whose principal is looked up by id ------------ *)
\* the lookup preparePrincipalID uses for each resource type of a principal
LookupOf(principalType) ==
  CASE principalType = userResourceType -> "FindUsername"
    [] principalType = groupResourceType -> "FindGroupDisplayName"
    [] principalType = servicePrincipalResourceType -> "FindServicePrincipalAppID"

\* preparePrincipalID on the outcome of its lookup: an error when the lookup
\* returned one, "<Kind>/<value>" otherwise
preparePrincipalIDFrom(principalType, found) ==
  IF found.err THEN [err |-> TRUE, value |-> <<>>]
  ELSE [err |-> FALSE,
        value |-> CASE principalType = userResourceType -> <<UsersType, found.value>>
                    [] principalType = groupResourceType -> <<GroupsType, found.value>>
                    [] principalType = servicePrincipalResourceType ->
                         <<ServicePrincipalsType, found.value>>]

PrincipalTypes == {userResourceType, groupResourceType, servicePrincipalResourceType}

\* A Grant or Revoke of the manager role on a group whose list has been read;
\* the lookup of its principal is about to be made.
InitPrincipal ==
  /\ Quiet
  /\ walk = NoWalk
  /\ probe = NoProbe
  /\ Only({"lookup"})
  /\ \E principalType \in PrincipalTypes, kind \in Kinds, listErr \in BOOLEAN,
        results \in ListAnswers, l \in InitLists :
       lookup = [pc |-> "ready", which |-> LookupOf(principalType), listErr |-> listErr,
                 results |-> IF listErr THEN <<>> ELSE results,
                 value |-> "", err |-> FALSE,
                 principalType |-> principalType, kind |-> kind, ruleSets |-> l,
                 result |-> "none", put |-> FALSE, submit |-> <<>>]

\* the handler after the lookup: preparePrincipalID, the loop over the list,
\* UpdateRuleSets (accepted: nobody else writes)
HandlerAfterLookup ==
  /\ lookup.pc = "done"
  /\ LET pid == preparePrincipalIDFrom(lookup.principalType,
                                       [value |-> lookup.value, err |-> lookup.err])
         out == IF lookup.kind = "Grant"
                THEN GrantRuleSets(lookup.ruleSets, groupManagerEntitlement, pid.value)
                ELSE RevokeRuleSets(lookup.ruleSets, groupManagerEntitlement, pid.value)
     IN  lookup' = IF pid.err
                   THEN [lookup EXCEPT !.pc = "returned", !.result = "error"]
                   ELSE IF out.noop
                        THEN [lookup EXCEPT !.pc = "returned", !.result = "ok"]
                        ELSE [lookup EXCEPT !.pc = "returned", !.result = "ok",
                                            !.put = TRUE, !.submit = out.list]
  /\ UNCHANGED <<rules, ver, writes, etag, op, history, focus, paging>>
  /\ Keep({"lookup"})

PrincipalNext == FindByKey \/ HandlerAfterLookup

SpecPrincipal == InitPrincipal /\ [][PrincipalNext]_vars

(* ----------------------- CreateUser / DeleteUser ----------------------- *)
\* the URL of the users endpoint: only the account scope has one
UserEndpointAnyScope(workspaceId) == [ok |-> TRUE, scope |-> workspaceId]

UserEndpoint(workspaceId) ==
  IF workspaceId = "" THEN [ok |-> TRUE, scope |-> ""] ELSE [ok |-> FALSE, scope |-> workspaceId]

InitUser ==
  /\ Quiet
  /\ walk = NoWalk
  /\ probe = NoProbe
  /\ Only({"userOp"})
  /\ \E kind \in {"CreateUser", "DeleteUser"}, workspaceId \in {"", "ws1"} :
       userOp = [pc |-> "ready", kind |-> kind, workspaceId |-> workspaceId,
                 rate |-> NilRateLimit, err |-> FALSE]

\* CreateUser / DeleteUser up to the Post / Delete
UserCall ==
  /\ userOp.pc = "ready"
  /\ IF UserEndpoint(userOp.workspaceId).ok
     THEN /\ userOp' = [userOp EXCEPT !.pc = "called"]
          /\ \E prepared \in BOOLEAN, answer \in Answers :
               call' = [pc |-> "ready",
                        method |-> IF userOp.kind = "CreateUser" THEN "POST" ELSE "DELETE",
                        prepared |-> prepared, answer |-> answer,
                        result |-> doRequest(FALSE, NoAnswer)]
     ELSE /\ userOp' = [userOp EXCEPT !.pc = "done", !.err = TRUE]
          /\ UNCHANGED call
  /\ UNCHANGED <<rules, ver, writes, etag, op, history, focus, paging>>
  /\ Keep({"userOp", "call"})

\* CreateUser / DeleteUser return what the Post / Delete returned
UserReturn ==
  /\ userOp.pc = "called"
  /\ call.pc = "done"
  /\ userOp' = [userOp EXCEPT !.pc = "done", !.rate = call.result.rate,
                              !.err = (call.result.err.kind # "none")]
  /\ UNCHANGED <<rules, ver, writes, etag, op, history, focus, paging>>
  /\ Keep({"userOp"})

UserNext == UserCall \/ Transport \/ UserReturn

SpecUser == InitUser /\ [][UserNext]_vars

(* --------------------------- configuration ----------------------------- *)
\* A configuration says which string fields are set and how long the two
\* list fields are; a list field is supplied when it is not empty.
Supplied(cfg, f) ==
  CASE f = "workspaces" -> cfg.workspaces > 0
    [] f = "workspace-tokens" -> cfg.tokens > 0
    [] OTHER -> cfg[f]

\* field.WithRequired
Required(cfg, f) == Supplied(cfg, f)

\* field.FieldsAtLeastOneUsed
FieldsAtLeastOneUsed(cfg, fields) == \E f \in fields : Supplied(cfg, f)

\* field.FieldsMutuallyExclusive
FieldsMutuallyExclusive(cfg, fields) ==
  Cardinality({f \in fields : Supplied(cfg, f)}) <= 1

\* field.FieldsRequiredTogether: all of them or none
FieldsRequiredTogether(cfg, fields) ==
  (\E f \in fields : Supplied(cfg, f)) => (\A f \in fields : Supplied(cfg, f))

\* field.FieldsDependentOn
FieldsDependentOn(cfg, fields, needed) ==
  (\E f \in fields : Supplied(cfg, f)) => (\A f \in needed : Supplied(cfg, f))

fieldRelationships(cfg) ==
  /\ FieldsAtLeastOneUsed(cfg, {"databricks-client-id", "username", "workspace-tokens"})
  /\ FieldsMutuallyExclusive(cfg, {"databricks-client-id", "username", "workspace-tokens"})
  /\ FieldsRequiredTogether(cfg, {"databricks-client-id", "databricks-client-secret"})
  /\ FieldsRequiredTogether(cfg, {"username", "password"})
  /\ FieldsDependentOn(cfg, {"workspace-tokens"}, {"workspaces"})

\* a validation that does not compare the two lists
ValidateConfigLax(cfg) == TRUE

\* ValidateConfig: TRUE when it returns nil
ValidateConfig(cfg) == ~(cfg.tokens > 0 /\ cfg.workspaces # cfg.tokens)

StringFields ==
  {"account-id", "databricks-client-id", "databricks-client-secret", "username", "password"}

Configurations ==
  {[pc |-> "ready", set |-> set, workspaces |-> w, tokens |-> t, valid |-> FALSE] :
     set \in [StringFields -> BOOLEAN], w \in 0..MaxList, t \in 0..MaxList}

\* the fields of a configuration by name
FieldsOf(c) == [f \in StringFields |-> c.set[f]] @@ [workspaces |-> c.workspaces, tokens |-> c.tokens]

InitConfig ==
  /\ Quiet
  /\ walk = NoWalk
  /\ probe = NoProbe
  /\ Only({"config"})
  /\ config \in Configurations

\* field.Validate of the schema, then ValidateConfig
Validate ==
  /\ config.pc = "ready"
  /\ config' = [config EXCEPT !.pc = "done",
                              !.valid = /\ Required(FieldsOf(config), "account-id")
                                        /\ fieldRelationships(FieldsOf(config))
                                        /\ ValidateConfig(FieldsOf(config))]
  /\ UNCHANGED <<rules, ver, writes, etag, op, history, focus, paging>>
  /\ Keep({"config"})

ConfigNext == Validate

SpecConfig == InitConfig /\ [][ConfigNext]_vars

(* ----------------------- listing the workspaces ------------------------ *)
\* databricks.Workspace as the account API returns it (Name, DeploymentName)
WorkspaceSet ==
  {[Name |-> "Prod", DeploymentName |-> "ws1"],
   [Name |-> "ws2", DeploymentName |-> "ws2"],
   [Name |-> "Dev", DeploymentName |-> "ws3"]}

\* the values the workspaces option can name
ConfiguredNames == {"ws1", "ws2"}

\* the orders in which a set can be laid out
Orders(S) ==
  {f \in [1..Cardinality(S) -> S] : \A i, j \in 1..Cardinality(S) : i # j => f[i] # f[j]}

\* the answers of ListWorkspaces: up to MaxList distinct workspaces
WorkspaceAnswers == UNION {Orders(S) : S \in {T \in SUBSET WorkspaceSet : Cardinality(T) <= MaxList}}

\* workspaceResource: display name from Name, object id from DeploymentName
workspaceResource(w) == [displayName |-> w.Name, id |-> w.DeploymentName]

\* minimalWorkspaceResource: both from DeploymentName
minimalWorkspaceResource(deploymentName) ==
  [displayName |-> deploymentName, id |-> deploymentName]

ResourcesOf(answer) == [i \in 1..Len(answer) |-> workspaceResource(answer[i])]

\* the filter of the builder that holds the configured workspaces
Skipped(workspaces, w) == w.DeploymentName \notin workspaces /\ Cardinality(workspaces) > 0

\* workspaceBuilder.List of the builder that holds the configured workspaces:
\* the results it can return (the map is ranged over in any order)
ListConfigured(workspaces, parent, available, listErr, answer) ==
  IF ~parent THEN {[rv |-> <<>>, err |-> FALSE]}
  ELSE IF available
    THEN IF listErr THEN {[rv |-> <<>>, err |-> TRUE]}
         ELSE {[rv |-> ResourcesOf(SelectSeq(answer, LAMBDA w : ~Skipped(workspaces, w))),
                err |-> FALSE]}
    ELSE {[rv |-> [i \in 1..Len(o) |-> minimalWorkspaceResource(o[i])], err |-> FALSE] :
            o \in Orders(workspaces)}

\* workspaceBuilder.List of the builder that holds the client only
ListAll(parent, listErr, answer) ==
  IF ~parent THEN {[rv |-> <<>>, err |-> FALSE]}
  ELSE IF listErr THEN {[rv |-> <<>>, err |-> TRUE]}
  ELSE {[rv |-> ResourcesOf(answer), err |-> FALSE]}

\* the two builders the connector has been assembled with
Builders == {"configured", "client"}

InitListing ==
  /\ Quiet
  /\ walk = NoWalk
  /\ probe = NoProbe
  /\ Only({"listing"})
  /\ listing \in [pc : {"ready"}, builder : Builders, workspaces : SUBSET ConfiguredNames,
                  parent : BOOLEAN, available : BOOLEAN, listErr : BOOLEAN,
                  answer : WorkspaceAnswers, rv : {<<>>}, err : {FALSE}]

\* workspaceBuilder.List
ListWorkspaces ==
  /\ listing.pc = "ready"
  /\ \E out \in (IF listing.builder = "configured"
                   THEN ListConfigured(listing.workspaces, listing.parent, listing.available,
                                       listing.listErr, listing.answer)
                   ELSE ListAll(listing.parent, listing.listErr, listing.answer)) :
       listing' = [listing EXCEPT !.pc = "done", !.rv = out.rv, !.err = out.err]
  /\ UNCHANGED <<rules, ver, writes, etag, op, history, focus, paging>>
  /\ Keep({"listing"})

ListingNext == ListWorkspaces

SpecListing == InitListing /\ [][ListingNext]_vars

(* --------------------- the grant and revoke script --------------------- *)
\* scripts/grant-revoke.sh: the provisioning steps it runs, each in a process
\* of its own (a new client, so no etag is carried from one step to the next)
Script == <<"Grant", "Grant", "Revoke", "Revoke", "Grant">>

\* values of roles and entitlements a principal can hold directly
PermissionValues == {"account_admin", "workspace-access"}

\* ids of role resources, split at ":" (a workspace role is workspace:name)
RoleResourceIds == {<<"account_admin">>, <<"ws1", "workspace-access">>}

\* prepareWorkspaceRole
prepareWorkspaceRole(parts) == IF Len(parts) # 2 THEN "" ELSE parts[2]

\* addPermissions
addPermissions(isWorkspaceRole, perms, entitlement) ==
  IF ~isWorkspaceRole
  THEN [perms EXCEPT !.Roles = Append(@, entitlement)]
  ELSE [perms EXCEPT !.Entitlements = Append(@, entitlement)]

\* removePermissions: the first occurrence goes, then break
removePermissions(isWorkspaceRole, perms, entitlement) ==
  IF ~isWorkspaceRole
  THEN [perms EXCEPT !.Roles =
          IF Contains(@, entitlement) THEN DeleteAt(@, Index(@, entitlement)) ELSE @]
  ELSE [perms EXCEPT !.Entitlements =
          IF Contains(@, entitlement) THEN DeleteAt(@, Index(@, entitlement)) ELSE @]

\* the permission a role resource stands for and where it is kept
PermissionName(roleId) ==
  IF Len(roleId) = 2 THEN prepareWorkspaceRole(roleId) ELSE roleId[1]

\* the lists of values a principal can start with under Roles or Entitlements
InitValues == UNION {[1..n -> PermissionValues] : n \in 0..MaxRules}

InitCycle ==
  /\ Quiet
  /\ walk = NoWalk
  /\ probe = NoProbe
  /\ Only({"cycle"})
  /\ \/ cycle \in [pc : {"run"}, target : {"ruleSet"}, step : {0}, results : {<<>>},
                   res : Resources, slug : Roles, pid : PrincipalIds, list : InitLists,
                   roleId : {<<>>}, perms : {[Roles |-> <<>>, Entitlements |-> <<>>]}]
     \/ cycle \in [pc : {"run"}, target : {"permission"}, step : {0}, results : {<<>>},
                   res : {"none"}, slug : {""}, pid : PrincipalIds, list : {<<>>},
                   roleId : RoleResourceIds,
                   perms : [Roles : InitValues, Entitlements : InitValues]]

\* one step of the script on a rule-set entitlement: the whole handler of
\* groupBuilder or servicePrincipalBuilder (list, work on the list, update);
\* nobody else writes, so the platform accepts the update
CycleRuleSets ==
  /\ cycle.pc = "run" /\ cycle.target = "ruleSet" /\ cycle.step < Len(Script)
  /\ LET kind == Script[cycle.step + 1]
         rec == [IdleOp EXCEPT !.kind = kind, !.res = cycle.res, !.slug = cycle.slug,
                               !.pid = cycle.pid, !.ruleSets = cycle.list]
         out == IF RejectedBeforeList(kind, cycle.res, cycle.slug)
                THEN ReturnError(rec) ELSE Reconcile(rec)
     IN  cycle' = [cycle EXCEPT
                     !.step = @ + 1,
                     !.list = IF out.pc = "put" THEN out.submit ELSE @,
                     !.results = Append(@, IF out.pc = "put" THEN "ok" ELSE out.result)]
  /\ UNCHANGED <<rules, ver, writes, etag, op, history, focus, paging>>
  /\ Keep({"cycle"})

\* roleBuilder.Grant: get the principal, add the permission, update
RoleGrant ==
  /\ cycle.pc = "run" /\ cycle.target = "permission" /\ cycle.step < Len(Script)
  /\ Script[cycle.step + 1] = "Grant"
  /\ cycle' = [cycle EXCEPT
                 !.step = @ + 1,
                 !.perms = addPermissions(Len(cycle.roleId) = 2, @, PermissionName(cycle.roleId)),
                 !.results = Append(@, "ok")]
  /\ UNCHANGED <<rules, ver, writes, etag, op, history, focus, paging>>
  /\ Keep({"cycle"})

\* roleBuilder.Revoke: get the principal, remove the permission, update
RoleRevoke ==
  /\ cycle.pc = "run" /\ cycle.target = "permission" /\ cycle.step < Len(Script)
  /\ Script[cycle.step + 1] = "Revoke"
  /\ cycle' = [cycle EXCEPT
                 !.step = @ + 1,
                 !.perms = removePermissions(Len(cycle.roleId) = 2, @, PermissionName(cycle.roleId)),
                 !.results = Append(@, "ok")]
  /\ UNCHANGED <<rules, ver, writes, etag, op, history, focus, paging>>
  /\ Keep({"cycle"})

CycleNext == CycleRuleSets \/ RoleGrant \/ RoleRevoke

SpecCycle == InitCycle /\ [][CycleNext]_vars

(* ---------------------- group membership Grant ------------------------- *)
\* A resource id is a text of parts joined by "/", written as the sequence of
\* its parts: a user or service principal is <<id>>, a group is
\* <<"group", id>> or <<"workspace", ws, "group", id>>.

\* parseResourceId: [err, id], id being the resource id after the parent
parseResourceId(parts) ==
  CASE Len(parts) = 2 -> [err |-> FALSE, id |-> <<parts[2]>>]
    [] Len(parts) = 4 -> [err |-> FALSE, id |-> <<parts[4]>>]
    [] OTHER -> [err |-> TRUE, id |-> <<>>]

\* the principals a membership can be granted to: type and principal.Id.Resource
MemberPrincipals ==
  {[type |-> userResourceType, resource |-> <<"42">>],
   [type |-> servicePrincipalResourceType, resource |-> <<"55">>],
   [type |-> groupResourceType, resource |-> <<groupResourceType, "77">>],
   [type |-> groupResourceType, resource |-> <<"workspace", "ws1", groupResourceType, "77">>]}

\* member ids a group can start with
MemberIds == {<<"42">>, <<"77">>, <<"90">>}

\* groupBuilder.Grant for the member entitlement, on the members just read:
\* [err, noop, members]
GrantMember(members, principal) ==
  LET parsed == parseResourceId(principal.resource)
      principalId == IF principal.type = groupResourceType THEN parsed.id
                     ELSE principal.resource
  IN  IF principal.type = groupResourceType /\ parsed.err
      THEN [err |-> TRUE, noop |-> TRUE, members |-> members]
      ELSE IF Contains(members, principalId)
           THEN [err |-> FALSE, noop |-> TRUE, members |-> members]
           ELSE [err |-> FALSE, noop |-> FALSE, members |-> Append(members, principal.resource)]

InitMember ==
  /\ Quiet
  /\ walk = NoWalk
  /\ probe = NoProbe
  /\ Only({"cycle"})
  /\ \E principal \in MemberPrincipals, strict \in BOOLEAN,
        members \in UNION {[1..n -> MemberIds] : n \in 0..MaxList} :
       /\ \A i, j \in DOMAIN members : members[i] = members[j] => i = j
       /\ cycle = [pc |-> "member", principal |-> principal, strict |-> strict,
                   members |-> members, step |-> 0, results |-> <<>>, updates |-> <<>>]

\* One Grant of the membership: GetGroup, the check, UpdateGroup.  The
\* platform stores the members as sent; a strict platform refuses a member
\* id that is not the id of a principal.
GroupGrant ==
  /\ cycle.pc = "member" /\ cycle.step < 2
  /\ LET out == GrantMember(cycle.members, cycle.principal)
         refused == cycle.strict /\ \E i \in 1..Len(out.members) : Len(out.members[i]) # 1
     IN  cycle' = [cycle EXCEPT
                     !.step = @ + 1,
                     !.members = IF out.err \/ out.noop \/ refused THEN @ ELSE out.members,
                     !.updates = Append(@, ~out.err /\ ~out.noop),
                     !.results = Append(@, IF out.err \/ (~out.noop /\ refused)
                                           THEN "error" ELSE "ok")]
  /\ UNCHANGED <<rules, ver, writes, etag, op, history, focus, paging>>
  /\ Keep({"cycle"})

MemberNext == GroupGrant

SpecMember == InitMember /\ [][MemberNext]_vars

(* ------------------- the scope selected on the client ------------------ *)
\* Client.cfg, Client.baseUrl and TokenAuth.CurrentWorkspace are fields of the
\* one client; resource adapters select a scope with SetAccountConfig or
\* SetWorkspaceConfig and then issue a request.  The statements of two
\* adapters interleave.
AccountScope == "account"

WorkspaceNames == {"ws1", "ws2"}

Scopes == {AccountScope} \cup WorkspaceNames

Adapters == {"a1", "a2"}

AuthKinds == {"token", "basic"}

\* AccountConfig.BaseUrl and WorkspaceConfig.BaseUrl: the host
BaseUrl(cfg) ==
  IF cfg = AccountScope THEN <<"accounts", "cloud.databricks.com">>
  ELSE <<cfg, "cloud.databricks.com">>

\* TokenAuth.Apply and BasicAuth.Apply: the Authorization header
Apply(auth, current) ==
  IF auth = "token" THEN <<"Bearer", current>> ELSE <<"Basic">>

\* a request resolved against the scope its own adapter selected
RequestBaseOfOwnScope(baseUrl, want) == BaseUrl(want)

\* the base a request is resolved against: c.cfg.ResolvePath(c.baseUrl, ...)
RequestBase(baseUrl, want) == baseUrl

IdleAdapter(want) ==
  [pc |-> "select", want |-> want, url |-> <<>>, header |-> <<>>,
   baseAt |-> [by |-> "none", cfg |-> "none"], tokenAt |-> [by |-> "none", ws |-> "none"]]

\* The client after connector.New or after earlier adapters: cfg and baseUrl
\* agree; under token auth the current workspace is the one of cfg, or any
\* workspace when cfg is the account.
InitScope ==
  /\ Quiet
  /\ walk = NoWalk
  /\ probe = NoProbe
  /\ Only({"scope"})
  /\ \E auth \in AuthKinds, cfg \in Scopes, current \in WorkspaceNames,
        wants \in [Adapters -> Scopes] :
       /\ cfg \in WorkspaceNames => current = cfg
       /\ scope = [pc |-> "run", auth |-> auth, cfg |-> cfg, baseUrl |-> BaseUrl(cfg),
                   current |-> current,
                   lastBase |-> [by |-> "init", cfg |-> cfg],
                   lastToken |-> [by |-> "init", ws |-> current],
                   ad |-> [a \in Adapters |-> IdleAdapter(wants[a])]]

KeepRest == UNCHANGED <<rules, ver, writes, etag, op, history, focus, paging>> /\ Keep({"scope"})

\* SetWorkspaceConfig / SetAccountConfig up to the assignment of c.cfg: return
\* when cfg is already the wanted one, assign it otherwise
SelectConfig(a) ==
  /\ scope.pc = "run" /\ scope.ad[a].pc = "select"
  /\ scope' = IF scope.cfg = scope.ad[a].want
              THEN [scope EXCEPT !.ad[a].pc = "resolve"]
              ELSE [scope EXCEPT !.cfg = scope.ad[a].want, !.ad[a].pc = "setBase"]
  /\ KeepRest

\* c.baseUrl = c.cfg.BaseUrl()
SetBaseUrl(a) ==
  /\ scope.pc = "run" /\ scope.ad[a].pc = "setBase"
  /\ scope' = [scope EXCEPT
                 !.baseUrl = BaseUrl(scope.cfg),
                 !.lastBase = [by |-> a, cfg |-> scope.cfg],
                 !.ad[a].pc = IF scope.ad[a].want \in WorkspaceNames /\ scope.auth = "token"
                              THEN "setToken" ELSE "resolve"]
  /\ KeepRest

\* tokenAuth.SetWorkspace(workspace)
SetWorkspace(a) ==
  /\ scope.pc = "run" /\ scope.ad[a].pc = "setToken"
  /\ scope' = [scope EXCEPT
                 !.current = scope.ad[a].want,
                 !.lastToken = [by |-> a, ws |-> scope.ad[a].want],
                 !.ad[a].pc = "resolve"]
  /\ KeepRest

\* the adapter's request: the URL is resolved against c.baseUrl
ResolvePath(a) ==
  /\ scope.pc = "run" /\ scope.ad[a].pc = "resolve"
  /\ scope' = [scope EXCEPT
                 !.ad[a].url = RequestBase(scope.baseUrl, scope.ad[a].want),
                 !.ad[a].baseAt = scope.lastBase,
                 !.ad[a].pc = "apply"]
  /\ KeepRest

\* doRequest: c.auth.Apply(req), then the request is sent
SendRequest(a) ==
  /\ scope.pc = "run" /\ scope.ad[a].pc = "apply"
  /\ scope' = [scope EXCEPT
                 !.ad[a].header = Apply(scope.auth, scope.current),
                 !.ad[a].tokenAt = scope.lastToken,
                 !.ad[a].pc = "sent"]
  /\ KeepRest

ScopeNext ==
  \E a \in Adapters :
    \/ SelectConfig(a)
    \/ SetBaseUrl(a)
    \/ SetWorkspace(a)
    \/ ResolvePath(a)
    \/ SendRequest(a)

SpecScope == InitScope /\ [][ScopeNext]_vars

(* ------------- requests addressed to a workspace, in sequence ---------- *)
\* The client exists in two forms.  In the form "cfg" a handler selects the
\* scope (SetWorkspaceConfig / SetAccountConfig) and then sends its request to
\* c.baseUrl.  In the form "workspaceId" every client method takes the
\* workspace id and builds the URL from it; nothing calls SetWorkspace.
ClientForms == {"cfg", "workspaceId"}

\* Client.workspaceUrl and c.accountBaseUrl: the host a method addresses
workspaceUrl(workspaceId) == BaseUrl(workspaceId)

\* NewTokenAuth: CurrentWorkspace is the first configured workspace
NewTokenAuth(workspaces) == workspaces[1]

\* SetWorkspaceConfig / SetAccountConfig run as a whole: [cfg, baseUrl, current]
SetConfig(cfg, baseUrl, current, want) ==
  IF cfg = want
  THEN [cfg |-> cfg, baseUrl |-> baseUrl, current |-> current]
  ELSE [cfg |-> want, baseUrl |-> BaseUrl(want),
        current |-> IF want \in WorkspaceNames THEN want ELSE current]

InitAddressed ==
  /\ Quiet
  /\ walk = NoWalk
  /\ probe = NoProbe
  /\ Only({"scope"})
  /\ \E form \in ClientForms, workspaces \in Orders(WorkspaceNames) :
       scope = [pc |-> "addressed", form |-> form, workspaces |-> workspaces,
                cfg |-> AccountScope, baseUrl |-> BaseUrl(AccountScope),
                current |-> NewTokenAuth(workspaces),
                calls |-> 0, to |-> "none", url |-> <<>>, header |-> <<>>]

\* One client call addressed to the account or to a workspace, run to the
\* end before the next one starts: the URL, then doRequest's c.auth.Apply.
AddressedCall ==
  /\ scope.pc = "addressed" /\ scope.calls < MaxCalls
  /\ \E to \in Scopes :
       LET sel == IF scope.form = "cfg"
                  THEN SetConfig(scope.cfg, scope.baseUrl, scope.current, to)
                  ELSE [cfg |-> scope.cfg, baseUrl |-> scope.baseUrl, current |-> scope.current]
       IN  scope' = [scope EXCEPT
                       !.cfg = sel.cfg, !.baseUrl = sel.baseUrl, !.current = sel.current,
                       !.calls = @ + 1, !.to = to,
                       !.url = IF scope.form = "cfg" THEN sel.baseUrl ELSE workspaceUrl(to),
                       !.header = Apply("token", sel.current)]
  /\ KeepRest

AddressedNext == AddressedCall

SpecAddressed == InitAddressed /\ [][AddressedNext]_vars

(* --------------------------- Databricks.Validate ----------------------- *)
\* lists of distinct workspaces: d.workspaces, and the answers of ListWorkspaces
WorkspaceLists == UNION {Orders(S) : S \in SUBSET WorkspaceNames}

\* The loop over the workspaces from position i on: ListRoles on each, return
\* on an error when the account API is not available, set the flag otherwise.
\* [err, isWSAPIAvailable]
RECURSIVE ValidateLoop(_, _, _, _, _)
ValidateLoop(workspaces, rolesOk, isAccAPIAvailable, isWSAPIAvailable, i) ==
  IF i > Len(workspaces)
  THEN [err |-> FALSE, isWSAPIAvailable |-> isWSAPIAvailable]
  ELSE IF ~rolesOk[workspaces[i]] /\ ~isAccAPIAvailable
       THEN [err |-> TRUE, isWSAPIAvailable |-> isWSAPIAvailable]
       ELSE ValidateLoop(workspaces, rolesOk, isAccAPIAvailable, TRUE, i + 1)

\* Databricks.Validate up to the call of UpdateAvailability:
\* [err, isAccAPIAvailable, isWSAPIAvailable]
DatabricksValidate(tokenAuth, accountOk, workspaces, listed, rolesOk) ==
  LET acc == ~tokenAuth /\ accountOk
      fail == [err |-> TRUE, isAccAPIAvailable |-> acc, isWSAPIAvailable |-> FALSE]
      done(loop) == IF loop.err \/ (~acc /\ ~loop.isWSAPIAvailable) THEN fail
                    ELSE [err |-> FALSE, isAccAPIAvailable |-> acc,
                          isWSAPIAvailable |-> loop.isWSAPIAvailable]
  IN  IF Len(workspaces) > 0
      THEN done(ValidateLoop(workspaces, rolesOk, acc, FALSE, 1))
      ELSE IF listed.err THEN fail
           ELSE done(ValidateLoop(listed.workspaces, rolesOk, acc, FALSE, 1))

\* the workspaces Validate checks the credentials on
CheckedWorkspaces(workspaces, listed) ==
  IF Len(workspaces) > 0 THEN {workspaces[i] : i \in 1..Len(workspaces)}
  ELSE IF listed.err THEN {}
  ELSE {listed.workspaces[i] : i \in 1..Len(listed.workspaces)}

InitValidate ==
  /\ Quiet
  /\ walk = NoWalk
  /\ probe = NoProbe
  /\ Only({"listing"})
  /\ listing \in [pc : {"validate"}, tokenAuth : BOOLEAN, accountOk : BOOLEAN,
                  workspaces : WorkspaceLists,
                  listed : [err : BOOLEAN, workspaces : WorkspaceLists],
                  rolesOk : [WorkspaceNames -> BOOLEAN],
                  isAccAPIAvailable : BOOLEAN, isWSAPIAvailable : BOOLEAN,
                  before : {<<>>}, result : {"none"}]

\* Validate as a whole: the checks, then UpdateAvailability on success only
ValidateAvailability ==
  /\ listing.pc = "validate"
  /\ LET out == DatabricksValidate(listing.tokenAuth, listing.accountOk, listing.workspaces,
                                   listing.listed, listing.rolesOk)
     IN  listing' = [listing EXCEPT
                       !.pc = "validated",
                       !.before = <<listing.isAccAPIAvailable, listing.isWSAPIAvailable>>,
                       !.result = IF out.err THEN "error" ELSE "ok",
                       !.isAccAPIAvailable = IF out.err THEN @ ELSE out.isAccAPIAvailable,
                       !.isWSAPIAvailable = IF out.err THEN @ ELSE out.isWSAPIAvailable]
  /\ UNCHANGED <<rules, ver, writes, etag, op, history, focus, paging>>
  /\ Keep({"listing"})

ValidateNext == ValidateAvailability

SpecValidate == InitValidate /\ [][ValidateNext]_vars

(* ------------------- the grants of a role, page by page ---------------- *)
\* roleBuilder.Grants walks the service principals, the groups and the users
\* of its scope.  The page token is the host's serialization of a stack of
\* frames (pagination.Bag); here the token is that stack, the last frame
\* being the current one, and the empty token is the empty stack.
roleResourceType == "role"

Frame(resourceTypeID, token) == [ResourceTypeID |-> resourceTypeID, Token |-> token]

\* Bag.Push
BagPush(bag, frame) == Append(bag, frame)

\* Bag.Pop: the bag without its current frame
BagPop(bag) == SubSeq(bag, 1, Len(bag) - 1)

\* Bag.Next: the current frame is dropped and, when the token is not empty,
\* pushed back with that token
BagNext(bag, token) ==
  IF token = <<>> THEN BagPop(bag)
  ELSE BagPush(BagPop(bag), Frame(bag[Len(bag)].ResourceTypeID, token))

\* the frames of a first call that leaves the users out
FirstFramesWithoutUsers ==
  <<Frame(groupResourceType, <<>>), Frame(servicePrincipalResourceType, <<>>)>>

\* the frames the first call pushes, in the order it pushes them
FirstFrames ==
  <<Frame(userResourceType, <<>>), Frame(groupResourceType, <<>>),
    Frame(servicePrincipalResourceType, <<>>)>>

\* parsePageToken: the bag of the token, with a frame of the given type when
\* the token holds none
parsePageToken(token, resourceTypeID) ==
  IF token = <<>> THEN <<Frame(resourceTypeID, <<>>)>> ELSE token

Families == {userResourceType, groupResourceType, servicePrincipalResourceType}

\* the numbers of principals a family can have: none, one, a full page, a
\* full page and one more
FamilyTotals == {0, 1, ResourcesPageSize, ResourcesPageSize + 1}

InitRoleWalk ==
  /\ Quiet
  /\ walk = NoWalk
  /\ probe = NoProbe
  /\ Only({"roleWalk"})
  /\ \E totals \in [Families -> FamilyTotals] :
       roleWalk = [pc |-> "run", totals |-> totals, token |-> <<>>, calls |-> <<>>,
                   steps |-> 0, finished |-> FALSE]

\* one call of roleBuilder.Grants with the token the host holds
RoleGrants ==
  /\ roleWalk.pc = "run" /\ ~roleWalk.finished
  /\ roleWalk.steps < MaxCalls
  /\ LET bag == parsePageToken(roleWalk.token, roleResourceType)
         current == bag[Len(bag)]
         page == convertPageToken(current.Token)
         family == current.ResourceTypeID
         n == IF family \in Families
              THEN PageLength(roleWalk.totals[family], page, ResourcesPageSize) ELSE 0
         next == IF family = roleResourceType
                 THEN BagPop(bag) \o FirstFrames
                 ELSE BagNext(bag, prepareNextToken(page, n, roleWalk.totals[family]))
     IN  roleWalk' = [roleWalk EXCEPT
                        !.token = next,
                        !.steps = @ + 1,
                        !.calls = IF family = roleResourceType THEN @
                                  ELSE Append(@, [family |-> family, page |-> page, n |-> n]),
                        !.finished = (next = <<>>)]
  /\ UNCHANGED <<rules, ver, writes, etag, op, history, focus, paging>>
  /\ Keep({"roleWalk"})

RoleWalkNext == RoleGrants

SpecRoleWalk == InitRoleWalk /\ [][RoleWalkNext]_vars

(* ------------------------------ properties ----------------------------- *)
\* the role and the principal string an invocation works on
RoleOf(o) == ResolveRole(op[o].res, op[o].slug).role
PrincipalOf(o) == preparePrincipalID(PrincipalType(op[o].pid), op[o].pid)

\* the invocation has handed a list to UpdateRuleSets, or is about to
Submitted(o) == op[o].pc = "put" \/ (op[o].pc = "done" /\ op[o].nPut = 1)

\* the entries of a role in a list
EntriesOf(ruleSets, role) == {i \in 1..Len(ruleSets) : ruleSets[i].role = role}

\* C1: a Grant that follows a successful Grant of the same (resource, role,
\* principal), nothing else in between, returns success without an
\* UpdateRuleSets, and the resource's list then holds the principal exactly
\* once under the role.
C1_SecondGrantIsNoOp ==
  (/\ op[1].pc = "done" /\ op[1].kind = "Grant" /\ ~op[1].listFailed
   /\ prev.kind = "Grant" /\ prev.result = "ok")
  => /\ op[1].result = "ok"
     /\ op[1].nPut = 0
     /\ Occurrences(rules[op[1].res], RoleOf(1), PrincipalOf(1)) = 1

\* C2: a Revoke that read a list in which the principal is not under the role
\* returns success, and the stored list is not altered by it.
C2_RevokeAbsentIsNoOp ==
  \A o \in Ops :
    (/\ op[o].pc = "done" /\ op[o].kind = "Revoke" /\ op[o].nList = 1
     /\ Absent(op[o].ruleSets, RoleOf(o), PrincipalOf(o)))
    => op[o].result = "ok" /\ ~op[o].changed

\* the role has one entry in the list and the principal is its only principal
OnlyPrincipalOfRole(ruleSets, role, principalID) ==
  /\ Cardinality(EntriesOf(ruleSets, role)) = 1
  /\ \A i \in EntriesOf(ruleSets, role) : ruleSets[i].principals = <<principalID>>

\* C3: when the revoked principal is the only principal of the role's entry,
\* the list Revoke submits has no entry of the role, and once the write is
\* accepted the stored list (what the next ListRuleSets returns) has none.
C3_LastPrincipalDropsEntry ==
  (/\ op[1].kind = "Revoke" /\ Submitted(1)
   /\ OnlyPrincipalOfRole(op[1].ruleSets, RoleOf(1), PrincipalOf(1)))
  => /\ EntriesOf(op[1].submit, RoleOf(1)) = {}
     /\ \A i \in 1..Len(op[1].submit) : op[1].submit[i].principals # <<>>
     /\ op[1].accepted => EntriesOf(rules[op[1].res], RoleOf(1)) = {}

C3_Witness ==
  /\ op[1].kind = "Revoke" /\ op[1].pc = "done" /\ op[1].accepted
  /\ OnlyPrincipalOfRole(op[1].ruleSets, RoleOf(1), PrincipalOf(1))
  /\ Len(op[1].ruleSets) = 2
  /\ EntriesOf(rules[op[1].res], RoleOf(1)) = {}

\* C4: a Grant of a principal not yet under the role submits the list it read
\* with the principal appended at the end of the principals of the role's
\* entry (every entry of the role, when there are several), or, when the role
\* has no entry, with one new entry {role, [principal]} appended at the end.
C4_GrantAppends ==
  (op[1].kind = "Grant" /\ Submitted(1))
  => LET read == op[1].ruleSets
         sub == op[1].submit
     IN  IF EntriesOf(read, RoleOf(1)) # {}
         THEN /\ Len(sub) = Len(read)
              /\ \A i \in 1..Len(read) :
                   sub[i] = IF read[i].role = RoleOf(1)
                            THEN RuleSet(read[i].role,
                                         Append(read[i].principals, PrincipalOf(1)))
                            ELSE read[i]
         ELSE sub = Append(read, RuleSet(RoleOf(1), <<PrincipalOf(1)>>))

C4_Witness ==
  /\ op[1].kind = "Grant" /\ op[1].pc = "done" /\ op[1].accepted
  /\ Len(op[1].ruleSets) = 2
  /\ Cardinality(EntriesOf(op[1].ruleSets, RoleOf(1))) = 1
  /\ rules[op[1].res] = op[1].submit

\* C5: starting from a list without a principal twice under one role, no list
\* handed to UpdateRuleSets holds the same principal twice under one role.
C5_NoDuplicateSubmitted ==
  \A o \in Ops : Submitted(o) => NoDuplicates(op[o].submit)

\* C6 (as stated): for every ListRuleSets that succeeded since the previous
\* UpdateRuleSets, the etag the next UpdateRuleSets sends, in the payload and
\* in the query string, is the etag that ListRuleSets returned.
C6_UpdateCarriesEachListedEtag ==
  lastPut.sent =>
    \A e \in lastPut.pendingThen : lastPut.payloadEtag = e /\ lastPut.queryEtag = e

\* C6 (amended): every UpdateRuleSets sends, in the payload and in the query
\* string, the etag returned by the latest successful ListRuleSets on the
\* client before it.
C6_UpdateCarriesLatestListedEtag ==
  lastPut.sent =>
    /\ lastPut.listed # <<>>
    /\ lastPut.payloadEtag = lastPut.listed
    /\ lastPut.queryEtag = lastPut.listed

C6_Witness ==
  /\ lastPut.sent
  /\ Cardinality(lastPut.pendingThen) = 2
  /\ lastPut.payloadEtag = lastPut.listed
  /\ \E o \in Ops : op[o].pc = "done" /\ op[o].nPut = 1 /\ op[o].respEtag # lastPut.listed

\* C7: a Grant that had read a resource's list and not yet written when
\* another Grant's write on that resource was accepted has its own write
\* rejected and returns an error.
C7_RacingGrantRejected ==
  \A o \in Ops :
    op[o].raced => /\ ~op[o].accepted
                   /\ (op[o].pc = "done" /\ op[o].nPut = 1) => op[o].result = "error"

\* C8: every Grant or Revoke performs at most one ListRuleSets and at most
\* one UpdateRuleSets, and one whose UpdateRuleSets was rejected returns the
\* error.
C8_NoRetryAfterRejection ==
  \A o \in Ops :
    /\ op[o].nList <= 1
    /\ op[o].nPut <= 1
    /\ (op[o].pc = "done" /\ op[o].nPut = 1 /\ ~op[o].accepted) => op[o].result = "error"

C8_Witness ==
  \E o \in Ops :
    /\ op[o].pc = "done" /\ op[o].nList = 1 /\ op[o].nPut = 1
    /\ ~op[o].accepted /\ op[o].result = "error"

\* number of List calls a walk over total items needs at full pages
Ceil(total, size) == (total + size - 1) \div size

\* C9 (as stated): the walk reaches the empty token after exactly
\* ceil(total / pageSize) calls and has then visited each item exactly once.
C9_WalkTakesCeilSteps ==
  walk.finished =>
    /\ walk.steps = Ceil(walk.total, ResourcesPageSize)
    /\ \A i \in 1..walk.total : walk.seen[i] = 1

\* C9 (amended): with the platform answering every call with the items it has
\* from the page index on, at most pageSize of them, the walk reaches the
\* empty token after exactly ceil(total / pageSize) calls when total >= 1 and
\* after one call when total = 0; it has then visited each item exactly once,
\* and before that no item more than once.
C9_WalkVisitsEachItemOnce ==
  /\ \A i \in 1..walk.total : walk.seen[i] <= 1
  /\ walk.steps <= Ceil(walk.total, ResourcesPageSize) \/ walk.steps <= 1
  /\ walk.finished =>
       /\ walk.steps = IF walk.total = 0 THEN 1 ELSE Ceil(walk.total, ResourcesPageSize)
       /\ \A i \in 1..walk.total : walk.seen[i] = 1

C9_Witness ==
  /\ walk.finished
  /\ walk.steps = 3
  /\ walk.total > 2 * ResourcesPageSize
  /\ \A i \in 1..walk.total : walk.seen[i] = 1

\* value of a decimal digit: the number of digits 1..9 not above it
DigitValue(c) == Cardinality({d \in 1..9 : \E e \in d..9 : Digits[e + 1] = c})

\* value of a string of decimal digits
RECURSIVE DecimalValue(_)
DecimalValue(s) ==
  IF Len(s) = 0 THEN 0
  ELSE 10 * DecimalValue(SubSeq(s, 1, Len(s) - 1)) + DigitValue(s[Len(s)])

\* s is the decimal string of n: digits only, no leading zero, value n
IsDecimalOf(s, n) ==
  /\ Len(s) >= 1
  /\ \A k \in 1..Len(s) : \E d \in 0..9 : s[k] = Digits[d + 1]
  /\ Len(s) > 1 => s[1] # "0"
  /\ DecimalValue(s) = n

AnsweredNon2xx == call.pc = "done" /\ call.result.sent /\ call.answer.received /\ DoFails(call.answer)

\* C11: a Get, Put or Post whose answer has a non-2xx status returns an
\* APIError with the answer's status code and the detail and message of its
\* body, whatever the content type.
C11_Non2xxIsAPIError ==
  (AnsweredNon2xx /\ call.method \in {"GET", "PUT", "POST"})
  => /\ call.result.err.kind = "api"
     /\ call.result.err.status = call.answer.status
     /\ call.result.err.detail = call.answer.body.detail
     /\ call.result.err.message = call.answer.body.message

\* C12: a Get, Put, Post or Delete that got an answer returns the rate-limit
\* description taken from that answer, with or without an error.
C12_RateLimitAlwaysReturned ==
  (call.pc = "done" /\ call.result.sent /\ call.answer.received)
  => call.result.rate = RateLimitOf(call.answer)

\* the message says, in either spelling, that the permission assignment APIs
\* are not available
SaysPermissionsUnavailable(err) ==
  /\ err.kind = "api"
  /\ err.status = 400
  /\ \/ StringsContains(err.message, PermissionsUnavailable)
     \/ StringsContains(err.message, PermissionsUnavailableLower)

\* C13 (as stated): Grants returns an empty list and no error when the call
\* failed with status 400 and a message saying the permission assignment APIs
\* are not available, and an error and no grants for every other failure.
C13_UnavailableInAnySpelling ==
  (grants.pc = "done" /\ grants.accountAPI /\ call.result.err.kind # "none")
  => IF SaysPermissionsUnavailable(call.result.err)
     THEN grants.list = "empty" /\ ~grants.err
     ELSE grants.list = "nil" /\ grants.err

\* C13 (amended): Grants returns an empty list and no error exactly when the
\* call failed with an APIError of status 400 whose message contains the text
\* "Permission assignment APIs are not available for this workspace" as
\* spelled there; for every other failure it returns an error and no grants.
C13_UnavailableExactText ==
  (grants.pc = "done" /\ grants.accountAPI /\ call.result.err.kind # "none")
  => IF /\ call.result.err.kind = "api"
        /\ call.result.err.status = 400
        /\ \E i \in 1..Len(call.answer.body.message) :
             call.answer.body.message[i] = PermissionsUnavailable
     THEN grants.list = "empty" /\ ~grants.err
     ELSE grants.list = "nil" /\ grants.err

C13_Witness ==
  /\ grants.pc = "done" /\ grants.accountAPI
  /\ call.answer.status = 400
  /\ call.answer.ctype = "text/plain"
  /\ Len(call.answer.body.message) = 2
  /\ grants.list = "empty" /\ ~grants.err

\* C14: a lookup whose list request succeeded returns the empty string and
\* no error when the list is empty, and otherwise the key of the first entry
\* (the id for the Find...ID lookups, the natural key for the others).
C14_LookupFirstOrEmpty ==
  (lookup.pc = "done" /\ ~lookup.listErr)
  => /\ ~lookup.err
     /\ IF lookup.results = <<>> THEN lookup.value = ""
        ELSE lookup.value = IF lookup.which \in {"FindUserID", "FindGroupID",
                                                  "FindServicePrincipalID"}
                            THEN Head(lookup.results).id
                            ELSE Head(lookup.results).key

C14_Witness ==
  /\ lookup.pc = "done" /\ lookup.which = "FindUserID"
  /\ Len(lookup.results) = 2
  /\ lookup.results[1] # lookup.results[2]
  /\ lookup.value = "42"

\* C15: CreateUser and DeleteUser with a workspace ID that is not empty
\* return an error and send no HTTP request; whenever a request is sent the
\* scope is the account.
C15_UsersOnlyAtAccountScope ==
  /\ (userOp.pc = "done" /\ userOp.workspaceId # "") => (userOp.err /\ call = NoCall)
  /\ (userOp.pc # "none" /\ call # NoCall) => userOp.workspaceId = ""

C15_Witness ==
  /\ userOp.pc = "done" /\ userOp.kind = "DeleteUser"
  /\ userOp.workspaceId = "ws1" /\ userOp.err /\ call = NoCall

\* the conditions on a configuration as the claim lists them
ListedConditions(c) ==
  /\ c.set["account-id"]
  /\ Cardinality({f \in {"id", "user", "tokens"} :
                    \/ f = "id" /\ c.set["databricks-client-id"]
                    \/ f = "user" /\ c.set["username"]
                    \/ f = "tokens" /\ c.tokens > 0}) = 1
  /\ c.set["databricks-client-id"] => c.set["databricks-client-secret"]
  /\ c.set["username"] => c.set["password"]
  /\ c.tokens > 0 => c.workspaces > 0
  /\ c.tokens > 0 => c.workspaces = c.tokens

\* C16 (as stated): a configuration passes validation if and only if the
\* listed conditions hold.
C16_ValidIffListed == config.pc = "done" => (config.valid <=> ListedConditions(config))

\* C16 (amended): a configuration passes validation if and only if the
\* listed conditions hold and, besides, client-secret is supplied only with
\* client-id and password only with username.
C16_ValidIffListedAndPaired ==
  config.pc = "done" =>
    (config.valid <=> /\ ListedConditions(config)
                      /\ config.set["databricks-client-secret"] => config.set["databricks-client-id"]
                      /\ config.set["password"] => config.set["username"])

C16_Witness ==
  /\ config.pc = "done" /\ config.valid
  /\ config.tokens = 2 /\ config.workspaces = 2

\* C17: when a non-empty workspaces list is configured, every workspace that
\* List emits is named in that list (by its display name or its object id).
C17_OnlyConfiguredEmitted ==
  (listing.pc = "done" /\ listing.workspaces # {}) =>
    \A i \in 1..Len(listing.rv) :
      listing.rv[i].id \in listing.workspaces \/ listing.rv[i].displayName \in listing.workspaces


\* the principal of the script holds the entitlement the script is about
CycleHolds ==
  IF cycle.target = "ruleSet"
  THEN \E i \in 1..Len(cycle.list) :
         /\ cycle.list[i].role = ResolveRole(cycle.res, cycle.slug).role
         /\ Contains(cycle.list[i].principals,
                     preparePrincipalID(PrincipalType(cycle.pid), cycle.pid))
  ELSE IF Len(cycle.roleId) = 2
       THEN Contains(cycle.perms.Entitlements, PermissionName(cycle.roleId))
       ELSE Contains(cycle.perms.Roles, PermissionName(cycle.roleId))

\* the entitlement of the script is one the handlers accept
CycleGrantable ==
  /\ cycle.pc = "run"
  /\ cycle.target = "ruleSet" => ~ResolveRole(cycle.res, cycle.slug).err

\* C18: Grant, Grant, Revoke, Revoke succeeds at every step and leaves the
\* principal without the entitlement; the Grant that follows succeeds and
\* leaves the principal holding it.
C18_GrantRevokeCycle ==
  /\ (CycleGrantable /\ cycle.step = 4) =>
       (~CycleHolds /\ \A i \in 1..4 : cycle.results[i] = "ok")
  /\ (CycleGrantable /\ cycle.step = 5) =>
       (CycleHolds /\ cycle.results[5] = "ok")


\* C19: an UpdateRuleSets for a resource, sent when the latest ListRuleSets
\* on the client was for another resource, carries the etag recorded for that
\* other resource and is rejected, also when the rule sets of its own
\* resource are as its handler read them.
C19_WriteAfterOtherListRejected ==
  (lastPut.sent /\ lastPut.listed # <<>> /\ lastPut.listed[1] # lastPut.res) =>
    /\ lastPut.payloadEtag = lastPut.listed
    /\ lastPut.queryEtag = lastPut.listed
    /\ ~lastPut.accepted

\* ListRuleSets(g1), ListRuleSets(sp1), UpdateRuleSets(g1) with no write
\* accepted by the platform so far
C19_Witness ==
  /\ writes = 0
  /\ lastPut.sent /\ lastPut.res = "g1" /\ lastPut.unmodified
  /\ lastPut.payloadEtag = <<"sp1", 0>>
  /\ ~lastPut.accepted
  /\ \E o \in Ops : /\ op[o].pc = "done" /\ op[o].res = "g1"
                    /\ op[o].nPut = 1 /\ op[o].result = "error"


\* C20: every request goes to the base URL the client holds when the request
\* is prepared and, under token auth, carries the token of the workspace
\* current on the client when it is sent: those of whichever adapter selected
\* its scope last, not those of the adapter that issues the request.
C20_RequestFollowsLastSelection ==
  \A a \in Adapters :
    (scope.pc = "run" /\ scope.ad[a].pc = "sent") =>
      /\ scope.ad[a].url = BaseUrl(scope.ad[a].baseAt.cfg)
      /\ scope.auth = "token" => scope.ad[a].header = <<"Bearer", scope.ad[a].tokenAt.ws>>

\* an adapter that selected ws1 has sent its request to the base URL of ws2
\* with the token of ws2, both selected by the other adapter
C20_Witness ==
  /\ scope.pc = "run" /\ scope.auth = "token"
  /\ \E a, b \in Adapters :
       /\ a # b
       /\ scope.ad[a].pc = "sent" /\ scope.ad[a].want = "ws1"
       /\ scope.ad[b].want = "ws2"
       /\ scope.ad[a].url = BaseUrl("ws2") /\ scope.ad[a].baseAt.by = b
       /\ scope.ad[a].header = <<"Bearer", "ws2">> /\ scope.ad[a].tokenAt.by = b


\* C21: with handlers run strictly one after another on one client and no
\* other writer, the etag an UpdateRuleSets is about to send is the current
\* etag of its resource: the platform has no stale etag to reject.
C21_SequentialNeverStale ==
  op[1].pc = "put" => RequestEtag(etag, op[1]) = PlatformEtag(op[1].res)

\* accepted writes on both resources, one after the other
C21_Witness ==
  /\ op[1].pc = "done" /\ op[1].accepted /\ op[1].nPut = 1
  /\ ver["g1"] >= 1 /\ ver["sp1"] >= 1
  /\ lastPut.sent /\ lastPut.accepted /\ lastPut.unmodified


\* a ListRuleSets of slot o returns successfully in this step
ListSucceeds(o) == op[o].pc = "got" /\ op'[o].pc # "got"

\* C22: a step in which a ListRuleSets succeeds leaves the client holding the
\* etag of that response; every other step (a failed ListRuleSets, an
\* UpdateRuleSets accepted or rejected, a return) leaves the held etag as it was.
C22_EtagChangesOnlyOnList ==
  [][/\ \A o \in Ops : ListSucceeds(o) => etag' = op[o].respEtag
     /\ (\A o \in Ops : ~ListSucceeds(o)) => etag' = etag]_vars

\* the client holds the etag of a successful ListRuleSets while an
\* UpdateRuleSets has been rejected and a ListRuleSets has failed
C22_Witness ==
  /\ etag # <<>> /\ etag = lastList
  /\ lastPut.sent /\ ~lastPut.accepted
  /\ \E o \in Ops : op[o].pc = "done" /\ op[o].listFailed


\* C23: once a Revoke has returned success, no entry of its role in the
\* stored list of its resource holds its principal.
C23_RevokedPrincipalAbsent ==
  (op[1].pc = "done" /\ op[1].kind = "Revoke" /\ op[1].result = "ok") =>
    Absent(rules[op[1].res], RoleOf(1), PrincipalOf(1))


\* the entries of a list whose role is not the given one, in their order
OtherRoles(ruleSets, role) == SelectSeq(ruleSets, LAMBDA e : e.role # role)

\* C24: the list a Grant or Revoke hands to UpdateRuleSets holds every entry
\* of the list it read whose role is not its own, unchanged and in the same
\* relative order, and no other entry of another role.
C24_OtherRolesUntouched ==
  Submitted(1) => OtherRoles(op[1].submit, RoleOf(1)) = OtherRoles(op[1].ruleSets, RoleOf(1))

C24_Witness ==
  /\ Submitted(1) /\ op[1].kind = "Grant"
  /\ Len(OtherRoles(op[1].ruleSets, RoleOf(1))) = 1
  /\ Len(op[1].ruleSets) = 2
  /\ op[1].ruleSets[1].role # RoleOf(1)
  /\ op[1].submit # op[1].ruleSets


\* a principal string whose key is empty, such as "users/"
EmptyKey(principal) == principal[2] = ""

\* C25: a handler whose principal lookup found nothing returns an error
\* without an UpdateRuleSets, and no submitted list holds a principal string
\* with an empty key.
C25_EmptyLookupIsError ==
  lookup.pc = "returned" =>
    /\ (~lookup.listErr /\ lookup.results = <<>>) => (lookup.result = "error" /\ ~lookup.put)
    /\ \A i \in 1..Len(lookup.submit) : \A j \in 1..Len(lookup.submit[i].principals) :
         ~EmptyKey(lookup.submit[i].principals[j])


\* C26: for every page >= 1, item count >= 0 and total >= 0 the token
\* prepareNextToken returns is empty or names an index greater than the page.
C26_NextTokenAdvances ==
  probe.called => (probe.token = <<>> \/ ParseUint(probe.token) > probe.page)


\* the position of a family in the walk: service principals, groups, users
FamilyRank(family) ==
  CASE family = servicePrincipalResourceType -> 1
    [] family = groupResourceType -> 2
    [] family = userResourceType -> 3

\* the calls of the walk that listed the given family, in order
CallsOf(family) == SelectSeq(roleWalk.calls, LAMBDA c : c.family = family)

\* C27: the walk lists service principals, then groups, then users and never
\* returns to a family it has left; within a family the first call asks for
\* page index 1 and each further call for the index after the items already
\* returned; when the walk ends with the empty token every family has been
\* listed through to its last item.
C27_RoleWalkVisitsFamiliesInTurn ==
  roleWalk.pc = "run" =>
    /\ \A i, j \in 1..Len(roleWalk.calls) :
         i < j => FamilyRank(roleWalk.calls[i].family) <= FamilyRank(roleWalk.calls[j].family)
    /\ \A f \in Families :
         LET cs == CallsOf(f)
         IN  /\ Len(cs) > 0 => cs[1].page = 1
             /\ \A k \in 1..(Len(cs) - 1) : cs[k].n > 0 /\ cs[k + 1].page = cs[k].page + cs[k].n
             /\ roleWalk.finished =>
                  /\ Len(cs) > 0
                  /\ cs[Len(cs)].page + cs[Len(cs)].n = roleWalk.totals[f] + 1

\* a finished walk in which every family took two calls
C27_Witness ==
  /\ roleWalk.pc = "run" /\ roleWalk.finished
  /\ \A f \in Families : Len(CallsOf(f)) = 2 /\ roleWalk.totals[f] = ResourcesPageSize + 1


\* the member entries of the group that stand for the principal of the Grants
MemberEntries ==
  {i \in 1..Len(cycle.members) :
     \/ cycle.members[i] = cycle.principal.resource
     \/ cycle.members[i] = parseResourceId(cycle.principal.resource).id}

\* C28: after two Grants of a group's membership to one principal the group
\* has exactly one member entry for the principal, and the second Grant
\* returned success without an UpdateGroup.
C28_SecondMemberGrantIsNoOp ==
  (cycle.pc = "member" /\ cycle.step = 2) =>
    /\ Cardinality(MemberEntries) = 1
    /\ cycle.results[2] = "ok" /\ ~cycle.updates[2]


\* C29: under token authentication with both workspaces configured, a
\* request addressed to workspace W goes to the host of W and carries the
\* token configured for W, whatever calls came before it.
C29_TokenOfAddressedWorkspace ==
  (scope.pc = "addressed" /\ scope.to \in WorkspaceNames) =>
    /\ scope.url = BaseUrl(scope.to)
    /\ scope.header = <<"Bearer", scope.to>>


\* C30: after a successful Validate the workspace flag is set only if
\* ListRoles succeeded on one of the workspaces checked, and the account flag
\* only if the account-level ListRoles was made and succeeded; after a failed
\* Validate both flags are what they were.
C30_FlagsReflectChecks ==
  listing.pc = "validated" =>
    IF listing.result = "ok"
    THEN /\ listing.isWSAPIAvailable =>
              \E w \in CheckedWorkspaces(listing.workspaces, listing.listed) : listing.rolesOk[w]
         /\ listing.isAccAPIAvailable => (~listing.tokenAuth /\ listing.accountOk)
    ELSE <<listing.isAccAPIAvailable, listing.isWSAPIAvailable>> = listing.before


====
